---- MODULE Spec2Model ----
(***************************************************************************)
(* RoadTrip planner backend: accounts, bearer tokens, the protect          *)
(* middleware and the ownership-scoped trip handlers, as a state machine.  *)
(* One action per HTTP request; a request is handled to completion         *)
(* (middleware, handler, error handler) in one step.  Requests that        *)
(* overlap are handled one await at a time, and the React client (App,     *)
(* Auth, Home, TripForm) is a second state machine that sends them.        *)
(***************************************************************************)
EXTENDS Integers, Sequences, FiniteSets, TLC

\* ---------------------------------------------------------------- bounds
MaxUsers == 2      \* accounts ever registered
MaxTrips == 3      \* trip identifiers ever issued
MaxStops == 2      \* stops in one submitted stop list
MaxCreated == 1    \* trips stored in the runs that enumerate request bodies
MaxAge == 1        \* token validity windows the clock runs through
MaxInflight == 2   \* requests the server handles at the same time
MaxCalls == 2      \* requests the browser has sent and not yet seen answered
MaxLookups == 2    \* geocode lookups of the trip form in flight

\* ------------------------------------------------------ JSON body values
\* A JSON value as express.json() hands it to a handler: an absent field
\* (undefined), a string (a sequence of one-character strings), a number or
\* an array.
Undef == [kind |-> "undefined", val |-> <<>>]
Str(s) == [kind |-> "string", val |-> s]
Num(n) == [kind |-> "number", val |-> <<n>>]
Arr(a) == [kind |-> "array", val |-> a]

\* JavaScript's !v for the values above.
Falsy(v) ==
    \/ v.kind = "undefined"
    \/ v.kind = "string" /\ v.val = <<>>
    \/ v.kind = "number" /\ v.val = <<0>>

\* String.prototype.trim, the schema option trim: true.
RECURSIVE TrimLeft(_)
TrimLeft(s) ==
    IF s = <<>> THEN s
    ELSE IF Head(s) = " " THEN TrimLeft(Tail(s)) ELSE s

RECURSIVE TrimRight(_)
TrimRight(s) ==
    IF s = <<>> THEN s
    ELSE IF s[Len(s)] = " " THEN TrimRight(SubSeq(s, 1, Len(s) - 1)) ELSE s

Trim(s) == TrimRight(TrimLeft(s))

\* String.prototype.toLowerCase, the schema option lowercase: true.
LowerChar(c) == IF c = "A" THEN "a" ELSE IF c = "B" THEN "b" ELSE c
ToLowerCase(s) == [i \in 1..Len(s) |-> LowerChar(s[i])]

\* Number(s) for a string of decimal digits with surrounding blanks: the
\* digits' value, 0 for a blank string, NaN (here -1) for anything else.
NaN == -1
DigitChars == <<"0", "1", "2", "3", "4", "5", "6", "7", "8", "9">>
IsDigit(c) == \E i \in 1..Len(DigitChars) : DigitChars[i] = c
DigitVal(c) == (CHOOSE i \in 1..Len(DigitChars) : DigitChars[i] = c) - 1

RECURSIVE DigitsToNat(_, _)
DigitsToNat(s, acc) ==
    IF s = <<>> THEN acc
    ELSE DigitsToNat(Tail(s), acc * 10 + DigitVal(Head(s)))

StringToNumber(s) ==
    LET t == Trim(s)
    IN  IF t = <<>> THEN 0
        ELSE IF \A i \in 1..Len(t) : IsDigit(t[i]) THEN DigitsToNat(t, 0)
        ELSE NaN

\* ------------------------------------------------------- Mongoose casting
\* The outcome of casting and validating one schema path: ok with the value
\* to store, or not ok (a CastError or a failed required validator).
Ok(v) == [ok |-> TRUE, val |-> <<v>>]
Invalid == [ok |-> FALSE, val |-> <<>>]
ValOf(r) == r.val[1]

\* Number.prototype.toString for a natural number.
RECURSIVE NumberToString(_)
NumberToString(n) ==
    IF n < 10 THEN <<DigitChars[n + 1]>>
    ELSE NumberToString(n \div 10) \o <<DigitChars[(n % 10) + 1]>>

\* A path {type: String}: a string is kept, a number becomes its decimal
\* string, an array is a CastError; an absent value stays absent.
CastString(v) ==
    CASE v.kind = "string" -> Ok(v.val)
      [] v.kind = "number" -> Ok(NumberToString(v.val[1]))
      [] OTHER -> Invalid

\* A path {type: String, required: true, trim: true}.
RequiredTrimmedString(v) ==
    LET c == CastString(v)
    IN  IF c.ok /\ Trim(ValOf(c)) # <<>> THEN Ok(Trim(ValOf(c))) ELSE Invalid

\* A path {type: Number, required: true}: numbers are kept, '' becomes null,
\* other strings go through Number(), NaN is a CastError, null fails required.
RequiredNumber(v) ==
    CASE v.kind = "number" -> Ok(v.val[1])
      [] v.kind = "string" /\ v.val # <<>> /\ StringToNumber(v.val) # NaN ->
             Ok(StringToNumber(v.val))
      [] OTHER -> Invalid

\* locationSchema applied to one submitted stop.
CastLocation(loc) ==
    LET n == RequiredTrimmedString(loc.name)
        la == RequiredNumber(loc.latitude)
        lo == RequiredNumber(loc.longitude)
    IN  IF n.ok /\ la.ok /\ lo.ok
        THEN Ok([name |-> ValOf(n), latitude |-> ValOf(la), longitude |-> ValOf(lo)])
        ELSE Invalid

\* The locations path, [locationSchema]: every element is cast in place, the
\* order of the array is kept.
CastLocations(locs) ==
    IF \A i \in 1..Len(locs) : CastLocation(locs[i]).ok
    THEN Ok([i \in 1..Len(locs) |-> ValOf(CastLocation(locs[i]))])
    ELSE Invalid

\* tripSchema applied by new Trip({...}) and validated by save(): the
\* document to insert, or a ValidationError.
CastTrip(id, title, description, locations, createdBy) ==
    LET t == RequiredTrimmedString(title)
        l == IF locations.kind = "array" THEN CastLocations(locations.val) ELSE Invalid
    IN  IF t.ok /\ l.ok
        THEN Ok([_id |-> id, title |-> ValOf(t), description |-> description,
                 locations |-> ValOf(l), createdBy |-> createdBy])
        ELSE Invalid

\* ------------------------------------------------------------------ state
VARIABLES
    users,      \* the User collection: documents [_id, username, email, password]
    trips,      \* the Trip collection: documents [_id, title, description, locations, createdBy]
    tripSeq,    \* trip identifiers generated so far (identifiers are never reused)
    held,       \* the tokens issued so far that clients still hold, one per account
    now,        \* the clock, in seconds
    nodeEnv,    \* process.env.NODE_ENV
    jwtSecret,  \* process.env.JWT_SECRET: "set" or "unset"
    req,        \* the request in progress ("none" between requests)
    resp,       \* the response written for it and the stages that ran
    inflight,   \* the requests being handled step by step, one per slot
    app,        \* the browser: localStorage token, App state, requests sent
    form        \* the TripForm shown on the Home page and its lookups

vars == <<users, trips, tripSeq, held, now, nodeEnv, jwtSecret, req, resp,
          inflight, app, form>>

\* ----------------------------------------------------------------- tokens
\* expiresIn: '30d', in seconds.
ExpiresIn == 2592000

JwtNoTimestamp(id, iat) == [id |-> id, iat |-> 0, sig |-> "signed"]

\* jwt.sign({id}, secret, {expiresIn}): the payload is the account id and the
\* second of issuance; the signature is a function of both and the secret.
Jwt(id, iat) == [id |-> id, iat |-> iat, sig |-> "signed"]
generateToken(id) == Jwt(id, now)

\* What a client can put after "Bearer " without the secret: a token it was
\* given, a token with its payload or signature altered, a string that is no
\* JWT.
Altered(t) == [t EXCEPT !.sig = "altered"]
Malformed == [id |-> 0, iat |-> 0, sig |-> "malformed"]
\* The header "Bearer" with nothing after it: split(' ')[1] is undefined.
NoTokenPart == [id |-> 0, iat |-> 0, sig |-> "missing"]

\* An account identifier no document of the collection has or will have
\* (an account removed from the store out of band).
GhostId == 0

jwtVerifyIgnoringExpiry(t) == t.sig = "signed"
jwtVerifyEarlyExpiry(t) == t.sig = "signed" /\ now < t.iat + ExpiresIn - 1
jwtVerifyLateExpiry(t) == t.sig = "signed" /\ now <= t.iat + ExpiresIn

\* jwt.verify(token, secret): throws unless there is a secret, the token is
\* well formed, its signature matches and the clock is before iat + expiresIn.
jwtVerifyOk(t) == jwtSecret = "set" /\ t.sig = "signed" /\ now < t.iat + ExpiresIn

\* jwt.sign throws when the secret is undefined.
CanSign == jwtSecret = "set"
NoSecret == "secretOrPrivateKey must have a value"

\* ------------------------------------------------------------ collections
\* Model.findById / findOne by a unique path: the matching documents, at most
\* one; the empty set is null.
FindUserById(id) == {u \in users : u._id = id}

FindUserByEmailExact(v) ==
    IF v.kind = "string" THEN {u \in users : u.email = v.val} ELSE {}

\* User.findOne({email}): the query value is cast with the path's setters
\* (trim, lowercase); an undefined value matches no document.
FindUserByEmail(v) ==
    LET c == CastString(v)
    IN  IF c.ok THEN {u \in users : u.email = ToLowerCase(Trim(ValOf(c)))} ELSE {}

\* bcrypt.hash(password, salt) and bcrypt.compare(entered, hash).
Hash(pw, salt) == [salt |-> salt, digest |-> pw]
CompareFreshSalt(entered, hash) == Hash(entered, "s0") = hash
Compare(entered, hash) == Hash(entered, hash.salt) = hash

\* An ObjectId in a route parameter: 24 hex digits naming the n-th generated
\* identifier, or a string that is no ObjectId.
Oid(n) == [wellFormed |-> TRUE, n |-> n]
BadOid == [wellFormed |-> FALSE, n |-> 0]

FindTripById(n) == {t \in trips : t._id = n}

\* ------------------------------------------------------------- responses
NoData == <<>>
JsonBody(kind, data) == [kind |-> kind, error |-> "", stack |-> "absent", data |-> data]

\* errorHandler: the status set before the throw, 500 if none was set; the
\* body {error, stack}.
errorHandler(statusCode, message) ==
    [status |-> IF statusCode = 200 THEN 500 ELSE statusCode,
     body |-> [kind |-> "error", error |-> message,
               stack |-> IF nodeEnv = "production" THEN "null" ELSE "trace",
               data |-> NoData]]

\* What a handler leaves behind: the response, the stages that ran after the
\* router, the Trip collection and identifier counter as it leaves them, and
\* the number of responses written: a handler writes once, with its last
\* statement, or throws before it and errorHandler writes once.
Outcome(status, body, ran, newTrips, newSeq) ==
    [status |-> status, body |-> body, ran |-> ran, trips |-> newTrips, tripSeq |-> newSeq,
     writes |-> 1]

\* asyncHandler: a throw inside a trip handler reaches errorHandler with the
\* status the handler had set; the collection is as the handler found it.
Throw(handler, statusCode, message) ==
    LET e == errorHandler(statusCode, message)
    IN  Outcome(e.status, e.body, <<"protect", handler, "errorHandler">>, trips, tripSeq)

TypeErrorNullUser == "Cannot read properties of null (reading '_id')"

protectCatchFallsThrough(auth) ==
    IF auth.scheme = "Bearer"
    THEN IF jwtVerifyOk(auth.token)
         THEN [next |-> TRUE,
               user |-> {[_id |-> u._id, username |-> u.username, email |-> u.email] :
                            u \in FindUserById(auth.token.id)},
               status |-> 200, body |-> JsonBody("none", NoData), writes |-> 0]
         ELSE [next |-> FALSE, user |-> {}, status |-> 401,
               body |-> [kind |-> "error", error |-> "Not authorized, token failed",
                         stack |-> "absent", data |-> NoData],
               writes |-> IF auth.token.sig = "missing" THEN 2 ELSE 1]
    ELSE [next |-> FALSE, user |-> {}, status |-> 401,
          body |-> [kind |-> "error", error |-> "Not authorized, no token",
                    stack |-> "absent", data |-> NoData],
          writes |-> 1]

\* protect: the gate in front of every trip route. auth is the Authorization
\* header: scheme "absent" (no header), "Basic" (a header that does not start
\* with Bearer) or "Bearer" followed by a token.
protect(auth) ==
    IF auth.scheme = "Bearer"
    THEN IF jwtVerifyOk(auth.token)
         THEN [next |-> TRUE,
               user |-> {[_id |-> u._id, username |-> u.username, email |-> u.email] :
                            u \in FindUserById(auth.token.id)},
               status |-> 200, body |-> JsonBody("none", NoData), writes |-> 0]
         ELSE [next |-> FALSE, user |-> {}, status |-> 401,
               body |-> [kind |-> "error", error |-> "Not authorized, token failed",
                         stack |-> "absent", data |-> NoData],
               writes |-> 1]
    ELSE [next |-> FALSE, user |-> {}, status |-> 401,
          body |-> [kind |-> "error", error |-> "Not authorized, no token",
                    stack |-> "absent", data |-> NoData],
          writes |-> 1]

\* protect as the earlier revision of the middleware has it: next() is
\* called without return, so the function goes on to the test if (!token),
\* where token is the string that has just been verified.
protectNextWithoutReturn(auth) ==
    LET noToken == [next |-> FALSE, user |-> {}, status |-> 401,
                    body |-> [kind |-> "error", error |-> "Not authorized, no token",
                              stack |-> "absent", data |-> NoData],
                    writes |-> 1]
    IN  IF auth.scheme = "Bearer"
        THEN IF jwtVerifyOk(auth.token)
             THEN [next |-> TRUE,
                   user |-> {[_id |-> u._id, username |-> u.username, email |-> u.email] :
                                u \in FindUserById(auth.token.id)},
                   status |-> 200, body |-> JsonBody("none", NoData),
                   writes |-> IF auth.token.sig = "missing" THEN 1 ELSE 0]
             ELSE [noToken EXCEPT !.body.error = "Not authorized, token failed"]
        ELSE noToken

\* populate('createdBy', 'username').
Populate(t) ==
    LET o == FindUserById(t.createdBy)
    IN  [t EXCEPT !.createdBy =
            IF o = {} THEN [_id |-> GhostId, username |-> <<>>]
            ELSE [_id |-> t.createdBy, username |-> (CHOOSE u \in o : TRUE).username]]

getTripsUnfiltered(user) ==
    IF user = {} THEN Throw("getTrips", 200, TypeErrorNullUser)
    ELSE Outcome(200, JsonBody("trips", {Populate(t) : t \in trips}),
                 <<"protect", "getTrips">>, trips, tripSeq)

\* GET /api/trips
getTrips(user) ==
    IF user = {} THEN Throw("getTrips", 200, TypeErrorNullUser)
    ELSE LET me == (CHOOSE u \in user : TRUE)._id
         IN  Outcome(200, JsonBody("trips", {Populate(t) : t \in {x \in trips : x.createdBy = me}}),
                     <<"protect", "getTrips">>, trips, tripSeq)

createTripNoLengthCheck(user, body) ==
    IF Falsy(body.title) \/ Falsy(body.locations)
    THEN Throw("createTrip", 400, "Please include a title and at least one location")
    ELSE IF user = {} THEN Throw("createTrip", 200, TypeErrorNullUser)
    ELSE LET me == (CHOOSE u \in user : TRUE)._id
             doc == CastTrip(tripSeq + 1, body.title, body.description, body.locations, me)
         IN  IF doc.ok
             THEN Outcome(201, JsonBody("trip", ValOf(doc)), <<"protect", "createTrip">>,
                          trips \cup {ValOf(doc)}, tripSeq + 1)
             ELSE Throw("createTrip", 200, "Trip validation failed")

createTripOwnerFromBody(user, body) ==
    IF \/ Falsy(body.title)
       \/ Falsy(body.locations)
       \/ (body.locations.kind = "array" /\ Len(body.locations.val) = 0)
    THEN Throw("createTrip", 400, "Please include a title and at least one location")
    ELSE IF user = {} THEN Throw("createTrip", 200, TypeErrorNullUser)
    ELSE LET me == IF body.createdBy.kind = "number" THEN body.createdBy.val[1]
                   ELSE (CHOOSE u \in user : TRUE)._id
             doc == CastTrip(tripSeq + 1, body.title, body.description, body.locations, me)
         IN  IF doc.ok
             THEN Outcome(201, JsonBody("trip", ValOf(doc)), <<"protect", "createTrip">>,
                          trips \cup {ValOf(doc)}, tripSeq + 1)
             ELSE Throw("createTrip", 200, "Trip validation failed")

\* POST /api/trips
createTrip(user, body) ==
    IF \/ Falsy(body.title)
       \/ Falsy(body.locations)
       \/ (body.locations.kind = "array" /\ Len(body.locations.val) = 0)
    THEN Throw("createTrip", 400, "Please include a title and at least one location")
    ELSE IF user = {} THEN Throw("createTrip", 200, TypeErrorNullUser)
    ELSE LET me == (CHOOSE u \in user : TRUE)._id
             doc == CastTrip(tripSeq + 1, body.title, body.description, body.locations, me)
         IN  IF doc.ok
             THEN Outcome(201, JsonBody("trip", ValOf(doc)), <<"protect", "createTrip">>,
                          trips \cup {ValOf(doc)}, tripSeq + 1)
             ELSE Throw("createTrip", 200, "Trip validation failed")

deleteTripNoOwnerCheck(user, id) ==
    IF ~id.wellFormed THEN Throw("deleteTrip", 200, "Cast to ObjectId failed")
    ELSE IF FindTripById(id.n) = {} THEN Throw("deleteTrip", 404, "Trip not found")
    ELSE IF user = {} THEN Throw("deleteTrip", 200, TypeErrorNullUser)
    ELSE Outcome(200, JsonBody("message", "Trip removed successfully"),
                 <<"protect", "deleteTrip">>, {t \in trips : t._id # id.n}, tripSeq)

deleteTripWholeOwner(user, id) ==
    IF ~id.wellFormed THEN Throw("deleteTrip", 200, "Cast to ObjectId failed")
    ELSE LET trip == FindTripById(id.n)
         IN  IF trip = {} THEN Throw("deleteTrip", 404, "Trip not found")
             ELSE IF user = {} THEN Throw("deleteTrip", 200, TypeErrorNullUser)
             ELSE IF (CHOOSE t \in trip : TRUE).createdBy # (CHOOSE u \in user : TRUE)._id
             THEN Throw("deleteTrip", 403, "Not authorized to delete this trip")
             ELSE Outcome(200, JsonBody("message", "Trip removed successfully"),
                          <<"protect", "deleteTrip">>,
                          {t \in trips : t.createdBy # (CHOOSE u \in user : TRUE)._id}, tripSeq)

\* DELETE /api/trips/:id
deleteTrip(user, id) ==
    IF ~id.wellFormed THEN Throw("deleteTrip", 200, "Cast to ObjectId failed")
    ELSE LET trip == FindTripById(id.n)
         IN  IF trip = {} THEN Throw("deleteTrip", 404, "Trip not found")
             ELSE IF user = {} THEN Throw("deleteTrip", 200, TypeErrorNullUser)
             ELSE IF (CHOOSE t \in trip : TRUE).createdBy # (CHOOSE u \in user : TRUE)._id
             THEN Throw("deleteTrip", 403, "Not authorized to delete this trip")
             ELSE Outcome(200, JsonBody("message", "Trip removed successfully"),
                          <<"protect", "deleteTrip">>,
                          {t \in trips : t._id # id.n}, tripSeq)

\* The response when protect answered itself and did not call next().
Rejected(g) ==
    [Outcome(g.status, g.body, <<"protect">>, trips, tripSeq) EXCEPT !.writes = g.writes]

\* The response when protect called next(): what the handler writes, after
\* what protect wrote itself.
Passed(g, o) == [o EXCEPT !.writes = g.writes + @]

\* router.get('/', protect, getTrips)
RouteGetTrips(auth) ==
    LET g == protect(auth) IN IF g.next THEN Passed(g, getTrips(g.user)) ELSE Rejected(g)

\* router.post('/', protect, createTrip)
RouteCreateTrip(auth, body) ==
    LET g == protect(auth)
    IN  IF g.next THEN Passed(g, createTrip(g.user, body)) ELSE Rejected(g)

\* router.delete('/:id', protect, deleteTrip)
RouteDeleteTrip(auth, id) ==
    LET g == protect(auth)
    IN  IF g.next THEN Passed(g, deleteTrip(g.user, id)) ELSE Rejected(g)

\* ---------------------------------------------------------------- accounts
\* User.create({username, email, password}): cast and validate against
\* userSchema, hash the password (pre('save')), insert under the unique
\* indexes on username and email.
\* User.create on a collection without the unique indexes of the schema.
CreateUserNoUniqueIndex(b, salt) ==
    LET un == RequiredTrimmedString(b.username)
        em == IF CastString(b.email).ok
              THEN RequiredTrimmedString(Str(ToLowerCase(ValOf(CastString(b.email)))))
              ELSE Invalid
        pw == CastString(b.password)
    IN  IF ~(un.ok /\ em.ok /\ pw.ok /\ pw.val # <<<<>>>>)
        THEN [ok |-> FALSE, error |-> "User validation failed", doc |-> {}]
        ELSE [ok |-> TRUE, error |-> "",
              doc |-> {[_id |-> Cardinality(users) + 1, username |-> ValOf(un),
                        email |-> ValOf(em),
                        password |-> Hash(ValOf(pw), salt)]}]

CreateUser(b, salt) ==
    LET un == RequiredTrimmedString(b.username)
        em == IF CastString(b.email).ok
              THEN RequiredTrimmedString(Str(ToLowerCase(ValOf(CastString(b.email)))))
              ELSE Invalid
        pw == CastString(b.password)
    IN  IF ~(un.ok /\ em.ok /\ pw.ok /\ pw.val # <<<<>>>>)
        THEN [ok |-> FALSE, error |-> "User validation failed", doc |-> {}]
        ELSE IF \E u \in users : u.username = ValOf(un) \/ u.email = ValOf(em)
        THEN [ok |-> FALSE, error |-> "E11000 duplicate key error", doc |-> {}]
        ELSE [ok |-> TRUE, error |-> "",
              doc |-> {[_id |-> Cardinality(users) + 1, username |-> ValOf(un),
                        email |-> ValOf(em),
                        password |-> Hash(ValOf(pw), salt)]}]

\* The body {_id, username, email, token} of a successful signup or login.
UserBody(u) ==
    JsonBody("user", [_id |-> u._id, username |-> u.username, email |-> u.email,
                      token |-> generateToken(u._id)])

AuthOutcome(status, body, newUsers, issued) ==
    [status |-> status, body |-> body, users |-> newUsers, issued |-> issued]

AuthThrow(statusCode, message) ==
    LET e == errorHandler(statusCode, message)
    IN  AuthOutcome(e.status, e.body, users, {})

\* signupUser from await User.create(...) on.
signupUserCreate(b, salt) ==
    LET c == CreateUser(b, salt)
    IN  IF c.ok
        THEN LET u == CHOOSE d \in c.doc : TRUE
             IN  IF CanSign
                 THEN AuthOutcome(201, UserBody(u), users \cup {u},
                                  {generateToken(u._id)})
                 \* res.status(201) has run, the account is stored, and
                 \* generateToken throws while the body is being built.
                 ELSE [AuthThrow(201, NoSecret) EXCEPT !.users = users \cup {u}]
        ELSE AuthThrow(200, c.error)

\* POST /api/auth/signup
signupUser(b, salt) ==
    IF Falsy(b.username) \/ Falsy(b.email) \/ Falsy(b.password)
    THEN AuthThrow(400, "Please fill in all fields")
    ELSE IF FindUserByEmail(b.email) # {}
    THEN AuthThrow(400, "User already exists")
    ELSE signupUserCreate(b, salt)

\* user.matchPassword(password): bcrypt.compare rejects when the entered
\* password is no string.
\* POST /api/auth/login
loginUser(b) ==
    LET found == FindUserByEmail(b.email)
    IN  IF found = {} THEN AuthThrow(401, "Invalid email or password")
        ELSE LET u == CHOOSE d \in found : TRUE
             IN  IF b.password.kind # "string"
                 THEN AuthThrow(200, IF b.password.kind = "undefined"
                                     THEN "Illegal arguments: undefined, string"
                                     ELSE "Illegal arguments: number, string")
                 ELSE IF Compare(b.password.val, u.password)
                 THEN IF CanSign
                      THEN AuthOutcome(200, UserBody(u), users, {generateToken(u._id)})
                      ELSE AuthThrow(200, NoSecret)
                 ELSE AuthThrow(401, "Invalid email or password")

\* ------------------------------------------------------------------ inputs
Salts == {"s1", "s2"}

NoHeader == [scheme |-> "absent", token |-> Malformed]
Bearer(t) == [scheme |-> "Bearer", token |-> t]
Basic(t) == [scheme |-> "Basic", token |-> t]

\* The tokens a client can send: those it holds, those with the signature
\* part altered, a string that is no token, and a token signed for an
\* account that is not in the store.
GhostToken == Jwt(GhostId, 0)
TokenInputs == held \cup {Altered(t) : t \in held} \cup {Malformed, GhostToken}
AuthInputs == {NoHeader} \cup {Bearer(t) : t \in TokenInputs} \cup {Basic(t) : t \in held}
\* The headers that carry a token the client was given, and those that carry
\* any correctly signed token.
HeldAuthInputs == {Bearer(t) : t \in held}
SignedAuthInputs == HeldAuthInputs \cup {Bearer(GhostToken)}

UsernameInputs == {Undef, Str(<<"a">>), Str(<<"a", " ">>), Str(<<"b">>), Str(<<" ">>)}
EmailInputs == {Undef, Str(<<"a">>), Str(<<"A">>), Str(<<"b">>)}
PasswordInputs == {Undef, Str(<<"p">>), Num(1)}
SignupBodies ==
    {[username |-> u, email |-> e, password |-> p] :
        u \in UsernameInputs, e \in EmailInputs, p \in PasswordInputs}

LoginPasswords == {Undef, Str(<<"p">>), Str(<<"q">>), Num(1)}
LoginBodies == {[email |-> e, password |-> p] : e \in EmailInputs, p \in LoginPasswords}

NoBody == [none |-> TRUE]
Request(op, auth, body, id) == [op |-> op, auth |-> auth, body |-> body, id |-> id]
Response(o) == [status |-> o.status, body |-> o.body, ran |-> o.ran, writes |-> o.writes]

\* The client keeps the token of the latest successful signup or login of an
\* account (localStorage.setItem("token", ...)).
Keep(issued) == {t \in held : \A n \in issued : n.id # t.id} \cup issued

NoRequest == Request("none", NoHeader, NoBody, BadOid)
NoResponse == [status |-> 0, body |-> JsonBody("none", NoData), ran |-> <<>>, writes |-> 0]
\* The server handles one request to completion before the next.
Idle == req = NoRequest

\* ------------------------------------------------ requests handled in steps
\* A request whose handler is suspended at an await; the handlers of the
\* other requests run in between.  pc names the await the handler is at,
\* res is the response once the handler is done, and wrote tells whether
\* its own insert or removal changed the collection.
NoRes == [status |-> 0, body |-> JsonBody("none", NoData)]
IdleSlot ==
    [pc |-> "idle", op |-> "none", auth |-> NoHeader, body |-> NoBody, id |-> BadOid,
     user |-> {}, res |-> NoRes, wrote |-> FALSE]
Answered(slot, status, body) ==
    [slot EXCEPT !.pc = "done", !.res = [status |-> status, body |-> body]]

\* ---------------------------------------------------------------- browser
\* localStorage and the state of App after the first render and its
\* effect: no token is stored, so the effect navigates to "auth".  token
\* and user hold at most one element (none: null); calls are the requests
\* sent and not yet answered, oldest first.
FirstLoad ==
    [token |-> {}, user |-> {}, page |-> "auth", authError |-> "", apiError |-> "",
     calls |-> <<>>]

\* The state of a TripForm that is not mounted, and of one just mounted.
\* lookups are the geocode requests in flight, each with the name it
\* searches and the locations its handler closed over; kept is the
\* history of the stops matched so far less the stops the user removed.
NoForm ==
    [shown |-> FALSE, title |-> <<>>, description |-> <<>>, locations |-> <<>>,
     currentLocationName |-> <<>>, isSubmitting |-> FALSE, isGeocoding |-> FALSE,
     error |-> "", lookups |-> <<>>, kept |-> <<>>]
NewForm == [NoForm EXCEPT !.shown = TRUE]

\* ----------------------------------------------------------------- actions
Init ==
    /\ users = {}
    /\ trips = {}
    /\ tripSeq = 0
    /\ held = {}
    /\ now = 0
    /\ nodeEnv = "production"
    /\ jwtSecret = "set"
    /\ req = NoRequest
    /\ resp = NoResponse
    /\ inflight = [i \in 1..MaxInflight |-> IdleSlot]
    /\ app = FirstLoad
    /\ form = NoForm

Signup(b, salt) ==
    /\ Idle
    /\ Cardinality(users) < MaxUsers
    /\ LET o == signupUser(b, salt)
       IN  /\ users' = o.users
           /\ resp' = [status |-> o.status, body |-> o.body,
                       ran |-> IF o.body.kind = "error" THEN <<"signupUser", "errorHandler">>
                               ELSE <<"signupUser">>,
                       writes |-> 1]
    /\ req' = Request("signup", NoHeader, b, BadOid)
    /\ UNCHANGED <<trips, tripSeq, held, now, nodeEnv, jwtSecret, inflight, app, form>>

Login(b) ==
    /\ Idle
    /\ LET o == loginUser(b)
       IN  /\ resp' = [status |-> o.status, body |-> o.body,
                       ran |-> IF o.body.kind = "error" THEN <<"loginUser", "errorHandler">>
                               ELSE <<"loginUser">>,
                       writes |-> 1]
    /\ req' = Request("login", NoHeader, b, BadOid)
    /\ UNCHANGED <<users, trips, tripSeq, held, now, nodeEnv, jwtSecret, inflight, app, form>>

ListTrips(auth) ==
    /\ Idle
    /\ LET o == RouteGetTrips(auth)
       IN  /\ trips' = o.trips
           /\ tripSeq' = o.tripSeq
           /\ resp' = Response(o)
    /\ req' = Request("list", auth, NoBody, BadOid)
    /\ UNCHANGED <<users, held, now, nodeEnv, jwtSecret, inflight, app, form>>

CreateTrip(auth, b) ==
    /\ Idle
    /\ tripSeq < MaxTrips
    /\ LET o == RouteCreateTrip(auth, b)
       IN  /\ trips' = o.trips
           /\ tripSeq' = o.tripSeq
           /\ resp' = Response(o)
    /\ req' = Request("create", auth, b, BadOid)
    /\ UNCHANGED <<users, held, now, nodeEnv, jwtSecret, inflight, app, form>>

DeleteTrip(auth, id) ==
    /\ Idle
    /\ LET o == RouteDeleteTrip(auth, id)
       IN  /\ trips' = o.trips
           /\ tripSeq' = o.tripSeq
           /\ resp' = Response(o)
    /\ req' = Request("delete", auth, NoBody, id)
    /\ UNCHANGED <<users, held, now, nodeEnv, jwtSecret, inflight, app, form>>

\* The client receives the response; after a signup or login it stores the
\* token of the body.
Deliver ==
    /\ ~Idle
    /\ held' = IF resp.body.kind = "user" THEN Keep({resp.body.data.token}) ELSE held
    /\ req' = NoRequest
    /\ resp' = NoResponse
    /\ UNCHANGED <<users, trips, tripSeq, now, nodeEnv, jwtSecret, inflight, app, form>>

\* Time passes between requests.
Tick(d) ==
    /\ Idle
    /\ now + d <= MaxAge * ExpiresIn
    /\ now' = now + d
    /\ UNCHANGED <<users, trips, tripSeq, held, nodeEnv, jwtSecret, req, resp, inflight, app, form>>

\* --------------------------------------------------------- request inputs
Stop(n, la, lo) == [name |-> n, latitude |-> la, longitude |-> lo]
GoodStop == Stop(Str(<<"p">>), Num(0), Num(1))
PaddedStop == Stop(Str(<<" ", "q">>), Num(1), Num(1))
NoNameStop == Stop(Undef, Num(0), Num(1))
BlankNameStop == Stop(Str(<<" ">>), Num(0), Num(1))
NoLatStop == Stop(Str(<<"p">>), Undef, Num(1))
BadLonStop == Stop(Str(<<"p">>), Num(0), Str(<<"x">>))

TripBody(t, d, l, c) == [title |-> t, description |-> d, locations |-> l, createdBy |-> c]

\* All stop lists of at most MaxStops stops drawn from S.
StopLists(S) == UNION {[1..n -> S] : n \in 0..MaxStops}

TitleInputs == {Undef, Str(<<>>), Str(<<" ">>), Str(<<" ", "a">>)}
StopInputs == {GoodStop, PaddedStop, NoNameStop, BlankNameStop, NoLatStop, BadLonStop}

\* A few bodies for the runs that are about something else than validation.
ATripBody == TripBody(Str(<<"a">>), Undef, Arr(<<GoodStop>>), Undef)
FewTripBodies == {ATripBody, TripBody(Str(<<>>), Undef, Arr(<<GoodStop>>), Undef)}

\* Every title with every stop list, and around a valid body every
\* description and every createdBy field a client may add.
AllTripBodies ==
    {TripBody(t, Undef, l, Undef) :
        t \in TitleInputs, l \in {Undef} \cup {Arr(x) : x \in StopLists(StopInputs)}}
    \cup {TripBody(Str(<<"a">>), d, Arr(<<PaddedStop, GoodStop>>), c) :
            d \in {Undef, Str(<<"d">>)}, c \in {Undef, Num(1), Num(2)}}

IdInputs == {Oid(n) : n \in 1..(MaxTrips + 1)} \cup {BadOid}

FewSignupBodies ==
    {[username |-> Str(<<"a">>), email |-> Str(<<"a">>), password |-> Str(<<"p">>)],
     [username |-> Str(<<"b">>), email |-> Str(<<"b">>), password |-> Str(<<"p">>)],
     [username |-> Str(<<"b">>), email |-> Str(<<"A">>), password |-> Str(<<"p">>)]}
FewLoginBodies ==
    {[email |-> Str(<<"a">>), password |-> Str(<<"p">>)],
     [email |-> Str(<<"b">>), password |-> Str(<<"q">>)]}

ClockSteps == {ExpiresIn}
\* The last second of a token's life and the first after it.
FineClockSteps == {ExpiresIn - 1, ExpiresIn}
\* Every header of AuthInputs and the header "Bearer" alone.
EveryAuthInput == AuthInputs \cup {Bearer(NoTokenPart)}

\* ---------------------------------------------------------- specifications
\* Requests are taken from S between requests, none while one is in progress.
WhenIdle(S) == IF Idle THEN S ELSE {}

\* The whole API with a few bodies: every body and every id under every
\* correctly signed token, and one body and one id under every header a
\* client can send.
Next ==
    \/ \E b \in WhenIdle(FewSignupBodies) : Signup(b, "s1")
    \/ \E b \in WhenIdle(FewLoginBodies) : Login(b)
    \/ \E a \in WhenIdle(AuthInputs) : ListTrips(a)
    \/ \E a \in WhenIdle(SignedAuthInputs), b \in FewTripBodies : CreateTrip(a, b)
    \/ \E a \in WhenIdle(AuthInputs) : CreateTrip(a, ATripBody)
    \/ \E a \in WhenIdle(SignedAuthInputs), id \in IdInputs : DeleteTrip(a, id)
    \/ \E a \in WhenIdle(AuthInputs) : DeleteTrip(a, Oid(1))
    \/ \E d \in WhenIdle(ClockSteps) : Tick(d)
    \/ Deliver

Spec == Init /\ [][Next]_vars

\* POST /api/trips with every body, by the accounts of two signups, until
\* MaxCreated trips are stored.
Creating(S) == IF tripSeq < MaxCreated THEN WhenIdle(S) ELSE {}

NextCreate ==
    \/ \E b \in Creating({x \in FewSignupBodies : x.username = x.email}) : Signup(b, "s1")
    \/ \E a \in Creating(HeldAuthInputs), b \in AllTripBodies : CreateTrip(a, b)
    \/ \E a \in Creating(AuthInputs) : CreateTrip(a, ATripBody)
    \/ Deliver

SpecCreate == Init /\ [][NextCreate]_vars

\* POST /api/auth/signup and /login with every body.
NextAccounts ==
    \/ \E b \in WhenIdle(SignupBodies), salt \in Salts : Signup(b, salt)
    \/ \E b \in WhenIdle(LoginBodies) : Login(b)
    \/ Deliver

SpecAccounts == Init /\ [][NextAccounts]_vars

\* Tokens over their life: signup, login, the three trip routes under every
\* header, and a clock that stops at the last second of a token's life and
\* at the first after it.
NextTokens ==
    \/ \E b \in WhenIdle(FewSignupBodies) : Signup(b, "s1")
    \/ \E b \in WhenIdle(FewLoginBodies) : Login(b)
    \/ \E a \in WhenIdle(EveryAuthInput) : ListTrips(a)
    \/ \E a \in Creating(EveryAuthInput) : CreateTrip(a, ATripBody)
    \/ \E a \in WhenIdle(EveryAuthInput) : DeleteTrip(a, Oid(1))
    \/ \E d \in WhenIdle(FineClockSteps) : Tick(d)
    \/ Deliver

SpecTokens == Init /\ [][NextTokens]_vars

\* The API under every setting of NODE_ENV and with and without JWT_SECRET,
\* fixed when the process starts.
NodeEnvInputs == {"production", "development", "test", "unset"}
JwtSecretInputs == {"set", "unset"}

InitEnv ==
    /\ users = {}
    /\ trips = {}
    /\ tripSeq = 0
    /\ held = {}
    /\ now = 0
    /\ nodeEnv \in NodeEnvInputs
    /\ jwtSecret \in JwtSecretInputs
    /\ req = NoRequest
    /\ resp = NoResponse
    /\ inflight = [i \in 1..MaxInflight |-> IdleSlot]
    /\ app = FirstLoad
    /\ form = NoForm

NextEnv ==
    \/ \E b \in WhenIdle(FewSignupBodies) : Signup(b, "s1")
    \/ \E b \in WhenIdle(FewLoginBodies) : Login(b)
    \/ \E a \in WhenIdle(AuthInputs) : ListTrips(a)
    \/ \E a \in Creating(HeldAuthInputs), b \in FewTripBodies : CreateTrip(a, b)
    \/ \E a \in WhenIdle(HeldAuthInputs), id \in IdInputs : DeleteTrip(a, id)
    \/ Deliver

SpecEnv == InitEnv /\ [][NextEnv]_vars

\* ------------------------------------------------------ overlapping requests
\* signupUser up to its first await: the body is destructured and tested.
StartSignup(i, b) ==
    /\ inflight[i].pc = "idle"
    /\ Cardinality(users) < MaxUsers
    /\ LET slot == [IdleSlot EXCEPT !.op = "signup", !.body = b]
       IN  inflight' = [inflight EXCEPT ![i] =
               IF Falsy(b.username) \/ Falsy(b.email) \/ Falsy(b.password)
               THEN LET e == errorHandler(400, "Please fill in all fields")
                    IN  Answered(slot, e.status, e.body)
               ELSE [slot EXCEPT !.pc = "findOne"]]
    /\ UNCHANGED <<users, trips, tripSeq, held, now, nodeEnv, jwtSecret, req, resp, app, form>>

\* await User.findOne({email}) resolves and the handler runs to its next
\* await.
SignupFindOne(i) ==
    /\ inflight[i].pc = "findOne"
    /\ inflight' = [inflight EXCEPT ![i] =
           IF FindUserByEmail(@.body.email) # {}
           THEN LET e == errorHandler(400, "User already exists")
                IN  Answered(@, e.status, e.body)
           ELSE [@ EXCEPT !.pc = "create"]]
    /\ UNCHANGED <<users, trips, tripSeq, held, now, nodeEnv, jwtSecret, req, resp, app, form>>

\* await User.create(...) settles (the insert is one step of the database)
\* and the handler runs to its end.
SignupCreate(i, salt) ==
    /\ inflight[i].pc = "create"
    /\ LET o == signupUserCreate(inflight[i].body, salt)
       IN  /\ users' = o.users
           /\ inflight' = [inflight EXCEPT ![i] =
                   [Answered(@, o.status, o.body) EXCEPT !.wrote = o.users # users]]
    /\ UNCHANGED <<trips, tripSeq, held, now, nodeEnv, jwtSecret, req, resp, app, form>>

\* protect up to the handler's first await: the token is verified and the
\* account of the token loaded.
StartDelete(i, auth, id) ==
    /\ inflight[i].pc = "idle"
    /\ LET slot == [IdleSlot EXCEPT !.op = "delete", !.auth = auth, !.id = id]
           g == protect(auth)
       IN  inflight' = [inflight EXCEPT ![i] =
               IF g.next THEN [slot EXCEPT !.pc = "findById", !.user = g.user]
               ELSE Answered(slot, g.status, g.body)]
    /\ UNCHANGED <<users, trips, tripSeq, held, now, nodeEnv, jwtSecret, req, resp, app, form>>

\* await Trip.findById(req.params.id) resolves: the handler tests the trip
\* and its owner and, if it throws nothing, calls Trip.deleteOne.
DeleteFindById(i) ==
    /\ inflight[i].pc = "findById"
    /\ LET o == deleteTrip(inflight[i].user, inflight[i].id)
       IN  inflight' = [inflight EXCEPT ![i] =
               IF o.body.kind = "error" THEN Answered(@, o.status, o.body)
               ELSE [@ EXCEPT !.pc = "deleteOne"]]
    /\ UNCHANGED <<users, trips, tripSeq, held, now, nodeEnv, jwtSecret, req, resp, app, form>>

\* await Trip.deleteOne({_id}) resolves, whether or not a document was
\* left to remove, and res.json answers 200.
DeleteDeleteOne(i) ==
    /\ inflight[i].pc = "deleteOne"
    /\ trips' = {t \in trips : t._id # inflight[i].id.n}
    /\ inflight' = [inflight EXCEPT ![i] =
           [Answered(@, 200, JsonBody("message", "Trip removed successfully"))
               EXCEPT !.wrote = FindTripById(inflight[i].id.n) # {}]]
    /\ UNCHANGED <<users, tripSeq, held, now, nodeEnv, jwtSecret, req, resp, app, form>>

\* The response leaves the server; the client of a signup stores its token.
Finish(i) ==
    /\ inflight[i].pc = "done"
    /\ held' = IF inflight[i].res.body.kind = "user"
               THEN Keep({inflight[i].res.body.data.token}) ELSE held
    /\ inflight' = [inflight EXCEPT ![i] = IdleSlot]
    /\ UNCHANGED <<users, trips, tripSeq, now, nodeEnv, jwtSecret, req, resp, app, form>>

Slots == 1..MaxInflight
\* An arriving request takes the first free slot.
FreeSlot == {i \in Slots : inflight[i].pc = "idle" /\ \A j \in 1..(i - 1) : inflight[j].pc # "idle"}
OwnTripIds == {Oid(n) : n \in 1..tripSeq}

\* Signups and deletions that overlap, among trips created one at a time.
NextRace ==
    \/ \E i \in FreeSlot, b \in FewSignupBodies : StartSignup(i, b)
    \/ \E i \in Slots : SignupFindOne(i)
    \/ \E i \in Slots : SignupCreate(i, "s1")
    \/ \E a \in Creating(HeldAuthInputs) : CreateTrip(a, ATripBody)
    \/ Deliver
    \/ \E i \in FreeSlot, a \in HeldAuthInputs, id \in OwnTripIds : StartDelete(i, a, id)
    \/ \E i \in Slots : DeleteFindById(i)
    \/ \E i \in Slots : DeleteDeleteOne(i)
    \/ \E i \in Slots : Finish(i)

SpecRace == Init /\ [][NextRace]_vars

\* ----------------------------------------------------------------- client
server == <<users, trips, tripSeq, held, now, nodeEnv, jwtSecret, req, resp, inflight>>

PAGES == {"home", "auth", "profile"}

\* A page choice that shows the requested page to everybody.
CurrentPageForEverybody(user, page) == IF page \in PAGES THEN page ELSE "home"

\* App's choice of CurrentPage.
CurrentPage(user, page) ==
    IF user # {} \/ page = "auth"
    THEN IF page \in PAGES THEN page ELSE "home"
    ELSE "auth"

Rendered == CurrentPage(app.user, app.page)

\* An interceptor that attaches nothing.
interceptorWithoutHeader(token) == NoHeader

\* The request interceptor: the Authorization header of a request sent while
\* localStorage holds token.
interceptor(token) ==
    IF token = {} THEN NoHeader ELSE Bearer(CHOOSE t \in token : TRUE)

\* A request sent and not yet answered: mounted tells whether the component
\* whose handler awaits it is still mounted, byForm whether the TripForm
\* whose handleSubmit awaits it is.
Call(op, auth, body, byForm) ==
    [op |-> op, auth |-> auth, body |-> body, mounted |-> TRUE, byForm |-> byForm]

\* Home's loadTrips: fetchTrips().
LoadTripsCall(token) == Call("list", interceptor(token), NoBody, FALSE)

Unmounted(calls, ops) ==
    [k \in 1..Len(calls) |->
        IF calls[k].op \in ops THEN [calls[k] EXCEPT !.mounted = FALSE, !.byForm = FALSE]
        ELSE calls[k]]

FormUnmounted(calls) == [k \in 1..Len(calls) |-> [calls[k] EXCEPT !.byForm = FALSE]]

\* React renders the state a that a handler has set: a page that is no
\* longer the current one is unmounted and loses its state, and Home, when
\* it is mounted or its user changes, runs its effect and loads the trips.
AfterRender(a) ==
    LET was == Rendered
        is == CurrentPage(a.user, a.page)
        loads == is = "home" /\ (was # "home" \/ a.user # app.user)
        left == IF was = is THEN {}
                ELSE IF was = "home" THEN {"list", "create"}
                ELSE IF was = "auth" THEN {"signup", "login"}
                ELSE {}
        kept == Unmounted(a.calls, left)
    IN  [a EXCEPT !.authError = IF was = "auth" /\ is = "auth" THEN @ ELSE "",
                  !.apiError = IF was = "home" /\ is = "home" /\ ~loads THEN @ ELSE "",
                  !.calls = IF loads THEN Append(kept, LoadTripsCall(a.token)) ELSE kept]

FormAfterRender(a) ==
    IF Rendered = "home" /\ CurrentPage(a.user, a.page) = "home" THEN form ELSE NoForm

\* The page is loaded (again): App mounts with user null and page "home",
\* and its effect navigates by the stored token.  The requests of the page
\* before are forgotten, and the answer to one being handled reaches nobody.
Reload ==
    /\ app' = [FirstLoad EXCEPT !.token = app.token,
                                !.page = IF app.token # {} THEN "home" ELSE "auth"]
    /\ form' = NoForm
    /\ req' = NoRequest
    /\ resp' = NoResponse
    /\ UNCHANGED <<users, trips, tripSeq, held, now, nodeEnv, jwtSecret, inflight>>

\* navigate(p) from the Navbar: the logo, Profile (shown with a user) or
\* Login (shown without one).
Navigate(p) ==
    /\ \/ p = "home"
       \/ p = "profile" /\ app.user # {}
       \/ p = "auth" /\ app.user = {}
    /\ LET a == [app EXCEPT !.page = p]
       IN  /\ Len(AfterRender(a).calls) <= MaxCalls
           /\ app' = AfterRender(a)
           /\ form' = FormAfterRender(a)
    /\ UNCHANGED server

\* handleLogout, on the Logout button the Navbar shows with a user.
handleLogout ==
    /\ app.user # {}
    /\ LET a == [app EXCEPT !.token = {}, !.user = {}, !.page = "auth"]
       IN  /\ app' = AfterRender(a)
           /\ form' = FormAfterRender(a)
    /\ UNCHANGED server

\* Auth.handleSubmit up to its await: the login or signup request is sent.
AuthHandleSubmit(isLogin, formData) ==
    /\ Rendered = "auth"
    /\ Len(app.calls) < MaxCalls
    /\ app' = [app EXCEPT
           !.authError = "",
           !.calls = Append(@,
               IF isLogin
               THEN Call("login", interceptor(app.token),
                         [email |-> formData.email, password |-> formData.password], FALSE)
               ELSE Call("signup", interceptor(app.token), formData, FALSE))]
    /\ UNCHANGED <<form, server>>

\* What services/api and Auth.handleSubmit keep of a 2xx answer: the token
\* field in localStorage and {_id, username, email} as the user.
StoredToken(body) == IF body.kind = "user" THEN body.data.token ELSE Malformed
UserData(body) ==
    IF body.kind = "user"
    THEN [_id |-> body.data._id, username |-> body.data.username, email |-> body.data.email]
    ELSE [_id |-> 0, username |-> <<>>, email |-> <<>>]

\* The form after TripForm.handleSubmit's await onSubmit(newTrip) has
\* resolved.
Submitted(f) ==
    [f EXCEPT !.title = <<>>, !.description = <<>>, !.locations = <<>>,
              !.isSubmitting = FALSE, !.kept = <<>>]

\* The answer to the oldest request arrives (axios rejects what is not
\* 2xx) and the handler awaiting it runs on: Auth.handleSubmit,
\* Home.loadTrips, or Home.handleAddTrip and then TripForm.handleSubmit.
Receive ==
    /\ ~Idle
    /\ app.calls # <<>>
    /\ req' = NoRequest
    /\ resp' = NoResponse
    /\ held' = IF resp.body.kind = "user" THEN Keep({resp.body.data.token}) ELSE held
    /\ LET c == Head(app.calls)
           rest == Tail(app.calls)
           ok == resp.status \in 200..299
       IN  IF c.op \in {"signup", "login"}
           THEN IF ok
                THEN LET a == [app EXCEPT !.token = {StoredToken(resp.body)},
                                          !.user = {UserData(resp.body)},
                                          !.page = "home",
                                          !.calls = rest]
                     IN  /\ app' = AfterRender(a)
                         /\ form' = FormAfterRender(a)
                ELSE /\ app' = [app EXCEPT !.calls = rest,
                                           !.authError = IF c.mounted THEN resp.body.error ELSE @]
                     /\ form' = form
           ELSE IF c.op = "list"
           THEN /\ app' = [app EXCEPT !.calls = rest,
                                      !.apiError = IF c.mounted /\ ~ok THEN resp.body.error ELSE @]
                /\ form' = form
           ELSE IF ok
           THEN /\ app' = [app EXCEPT
                       !.calls = Append(rest, [LoadTripsCall(app.token) EXCEPT !.mounted = c.mounted]),
                       !.apiError = IF c.mounted THEN "" ELSE @]
                /\ form' = IF c.mounted THEN NoForm ELSE form
           ELSE /\ app' = [app EXCEPT !.calls = rest,
                                      !.apiError = IF c.mounted THEN resp.body.error ELSE @]
                /\ form' = IF c.byForm THEN Submitted(form) ELSE form
    /\ UNCHANGED <<users, trips, tripSeq, now, nodeEnv, jwtSecret, inflight>>

\* The API handles the oldest request the browser has sent.
ServeSignup == app.calls # <<>> /\ Head(app.calls).op = "signup" /\ Signup(Head(app.calls).body, "s1")
ServeLogin == app.calls # <<>> /\ Head(app.calls).op = "login" /\ Login(Head(app.calls).body)
ServeList == app.calls # <<>> /\ Head(app.calls).op = "list" /\ ListTrips(Head(app.calls).auth)
ServeCreate ==
    /\ app.calls # <<>>
    /\ Head(app.calls).op = "create"
    /\ CreateTrip(Head(app.calls).auth, Head(app.calls).body)

\* ---------------------------------------------------------------- trip form
\* parseFloat for a string of decimal digits: the value of the leading
\* digits, NaN when there are none.
RECURSIVE DigitPrefix(_)
DigitPrefix(s) ==
    IF s = <<>> THEN s
    ELSE IF IsDigit(Head(s)) THEN <<Head(s)>> \o DigitPrefix(Tail(s)) ELSE <<>>
\* A parseFloat that reads no digit.
parseFloatNothing(s) == NaN

parseFloat(s) ==
    LET d == DigitPrefix(TrimLeft(s))
    IN  IF d = <<>> THEN NaN ELSE DigitsToNat(d, 0)

RemoveAt(l, i) == [k \in 1..(Len(l) - 1) |-> IF k < i THEN l[k] ELSE l[k + 1]]
RemoveOne(l, x) ==
    IF \E k \in 1..Len(l) : l[k] = x
    THEN RemoveAt(l, CHOOSE k \in 1..Len(l) : l[k] = x /\ \A j \in 1..(k - 1) : l[j] # x)
    ELSE l

\* The Add New Trip / Close Form button of Home and the form's Cancel.
ToggleForm ==
    /\ Rendered = "home"
    /\ form' = IF form.shown THEN NoForm ELSE NewForm
    /\ app' = [app EXCEPT !.calls = IF form.shown THEN FormUnmounted(@) ELSE @]
    /\ UNCHANGED server

SetTitle(v) ==
    /\ form.shown
    /\ form.title # v
    /\ form' = [form EXCEPT !.title = v]
    /\ UNCHANGED <<app, server>>

SetDescription(v) ==
    /\ form.shown
    /\ form.description # v
    /\ form' = [form EXCEPT !.description = v]
    /\ UNCHANGED <<app, server>>

SetCurrentLocationName(v) ==
    /\ form.shown
    /\ form.currentLocationName # v
    /\ form' = [form EXCEPT !.currentLocationName = v]
    /\ UNCHANGED <<app, server>>

\* handleGeocodeAndAddLocation up to its await, from the Add Stop button
\* (disabled while isGeocoding) or the Enter key in the name input.
handleGeocodeAndAddLocation(key) ==
    /\ form.shown
    /\ key = "Enter" \/ ~form.isGeocoding
    /\ Len(form.lookups) < MaxLookups
    /\ Len(form.locations) < MaxStops
    /\ Len(form.kept) + Len(form.lookups) < MaxStops
    /\ LET nameToSearch == Trim(form.currentLocationName)
       IN  form' = IF nameToSearch = <<>>
                   THEN [form EXCEPT !.error = "Location name cannot be empty."]
                   ELSE [form EXCEPT
                            !.error = "",
                            !.isGeocoding = TRUE,
                            !.lookups = Append(@, [nameToSearch |-> nameToSearch,
                                                   locations |-> form.locations])]
    /\ UNCHANGED <<app, server>>

\* The geocoder's answers: a first result with lat and lon, an empty
\* result list, or no answer at all.
GeocodeAnswers ==
    {[kind |-> "match", lat |-> <<"1">>, lon |-> <<"2">>],
     [kind |-> "empty", lat |-> <<>>, lon |-> <<>>],
     [kind |-> "failed", lat |-> <<>>, lon |-> <<>>]}

\* handleGeocodeAndAddLocation from its await on, for the k-th lookup in
\* flight: locations is the list the handler closed over when it started.
GeocodeSettles(k, answer) ==
    /\ k \in 1..Len(form.lookups)
    /\ LET l == form.lookups[k]
           newLocation == [name |-> l.nameToSearch,
                           latitude |-> parseFloat(answer.lat),
                           longitude |-> parseFloat(answer.lon)]
           f == [form EXCEPT !.lookups = RemoveAt(@, k), !.isGeocoding = FALSE]
       IN  form' = IF answer.kind = "match"
                   THEN [f EXCEPT !.locations = Append(l.locations, newLocation),
                                  !.currentLocationName = <<>>,
                                  !.kept = Append(@, newLocation)]
                   ELSE IF answer.kind = "empty"
                   THEN [f EXCEPT !.error = "Could not find coordinates"]
                   ELSE [f EXCEPT !.error = "Geocoding service failed"]
    /\ UNCHANGED <<app, server>>

handleRemoveLocation(indexToRemove) ==
    /\ form.shown
    /\ indexToRemove \in 1..Len(form.locations)
    /\ form' = [form EXCEPT !.locations = RemoveAt(@, indexToRemove),
                            !.error = "",
                            !.kept = RemoveOne(@, form.locations[indexToRemove])]
    /\ UNCHANGED <<app, server>>

\* The stops as JSON.stringify writes them (NaN becomes null).
JsonNumber(n) == IF n = NaN THEN Undef ELSE Num(n)
JsonStops(l) ==
    Arr([k \in 1..Len(l) |->
            Stop(Str(l[k].name), JsonNumber(l[k].latitude), JsonNumber(l[k].longitude))])

\* A handleSubmit that hands whatever the form holds to onSubmit.
handleSubmitUnchecked(f) == TRUE

\* handleSubmit's own test of the form f.
handleSubmitAccepts(f) == ~(Trim(f.title) = <<>> \/ Len(f.locations) = 0)

\* TripForm.handleSubmit up to its await, with Home.handleAddTrip up to
\* its own: the form is submitted by the Create Trip button (disabled while
\* isSubmitting and without stops) once the required title is filled in.
handleSubmit ==
    /\ form.shown
    /\ form.title # <<>>
    /\ ~form.isSubmitting
    /\ form.locations # <<>>
    /\ Len(app.calls) < MaxCalls
    /\ tripSeq < MaxCreated
    /\ IF handleSubmitAccepts(form)
       THEN /\ form' = [form EXCEPT !.error = "", !.isSubmitting = TRUE]
            /\ app' = [app EXCEPT
                   !.apiError = "",
                   !.calls = Append(@, Call("create", interceptor(app.token),
                                            TripBody(Str(Trim(form.title)),
                                                     Str(Trim(form.description)),
                                                     JsonStops(form.locations), Undef),
                                            TRUE))]
       ELSE /\ form' = [form EXCEPT
                   !.error = "Please provide a title and at least one location stop."]
            /\ app' = app
    /\ UNCHANGED server

FormDataInputs ==
    {[username |-> Str(<<"a">>), email |-> Str(<<"a">>), password |-> Str(pw)] :
        pw \in {<<"p">>, <<"q">>}}
TitleKeys == {<<" ">>, <<"t">>}
DescriptionKeys == {<<"d", " ">>}
LocationNameKeys == {<<" ">>, <<"p">>, <<"q", " ">>}

SignupFormData == {f \in FormDataInputs : f.password.val = <<"p">>}
MatchAnswer == {a \in GeocodeAnswers : a.kind = "match"}

\* The browser and the API: loading, navigating, logging in and out.
NextClient ==
    \/ Reload
    \/ \E p \in PAGES : Navigate(p)
    \/ handleLogout
    \/ \E isLogin \in BOOLEAN, formData \in FormDataInputs : AuthHandleSubmit(isLogin, formData)
    \/ ServeSignup
    \/ ServeLogin
    \/ ServeList
    \/ Receive
    \/ \E d \in ClockSteps : Tick(d)

SpecClient == Init /\ [][NextClient]_vars

\* The trip form of a user who has signed up: lookups that overlap and
\* removals.
NextForm ==
    \/ \E formData \in SignupFormData : AuthHandleSubmit(FALSE, formData)
    \/ ServeSignup
    \/ ServeList
    \/ Receive
    \/ ToggleForm
    \/ \E v \in LocationNameKeys : SetCurrentLocationName(v)
    \/ \E key \in {"button", "Enter"} : handleGeocodeAndAddLocation(key)
    \/ \E k \in 1..MaxLookups, answer \in GeocodeAnswers : GeocodeSettles(k, answer)
    \/ \E i \in 1..MaxStops : handleRemoveLocation(i)

SpecForm == Init /\ [][NextForm]_vars

\* The trip form of a user who has signed up: filling it in and submitting
\* it, with a token that is valid or has expired.
NextSubmit ==
    \/ \E formData \in SignupFormData : AuthHandleSubmit(FALSE, formData)
    \/ ServeSignup
    \/ ServeList
    \/ ServeCreate
    \/ Receive
    \/ ToggleForm
    \/ \E v \in TitleKeys : SetTitle(v)
    \/ \E v \in DescriptionKeys : SetDescription(v)
    \/ \E v \in {<<"p">>} : SetCurrentLocationName(v)
    \/ handleGeocodeAndAddLocation("button")
    \/ \E answer \in MatchAnswer : GeocodeSettles(1, answer)
    \/ handleSubmit
    \/ \E d \in ClockSteps : Tick(d)

SpecSubmit == Init /\ [][NextSubmit]_vars

\* ------------------------------------------------------------- properties
\* The header carries no token that verifies when the request is handled.
Unverifiable(a) ==
    \/ a.scheme # "Bearer"
    \/ a.token.sig # "signed"
    \/ now >= a.token.iat + ExpiresIn

\* The header carries a verifying token of the stored account id.
AuthenticatedAs(a, id) ==
    /\ ~Unverifiable(a)
    /\ a.token.id = id
    /\ \E u \in users : u._id = id

TripOps == {"list", "create", "delete"}
TripIds(T) == {t._id : t \in T}

\* C1: a request to GET /api/trips, POST /api/trips or DELETE /api/trips/:id
\* without an Authorization header, without a Bearer token or with a token
\* that fails verification is answered 401 by protect alone, and no
\* collection changes.
C1_UnauthenticatedIs401 ==
    [][(Idle /\ req'.op \in TripOps /\ Unverifiable(req'.auth)) =>
        /\ resp'.status = 401
        /\ resp'.ran = <<"protect">>
        /\ UNCHANGED <<users, trips, tripSeq>>]_vars

C1_Witness ==
    /\ req.op = "delete"
    /\ req.auth.scheme = "Bearer"
    /\ req.auth.token \in held
    /\ now >= req.auth.token.iat + ExpiresIn
    /\ resp.status = 401
    /\ \E t \in trips : t._id = req.id.n /\ t.createdBy = req.auth.token.id

\* C2: GET /api/trips by account A answers 200 with exactly the stored trips
\* A owns: none of another account, none of A's missing, the empty array when
\* A owns none.
C2_ListIsExactlyOwnTrips ==
    \A u \in users :
        (req.op = "list" /\ AuthenticatedAs(req.auth, u._id)) =>
            /\ resp.status = 200
            /\ resp.body.kind = "trips"
            /\ \A t \in trips :
                   (t.createdBy = u._id) <=> (\E x \in resp.body.data : x._id = t._id)
            /\ \A x \in resp.body.data :
                   /\ x.createdBy._id = u._id
                   /\ \E t \in trips :
                          /\ t._id = x._id
                          /\ t.title = x.title
                          /\ t.description = x.description
                          /\ t.locations = x.locations
            /\ (~\E t \in trips : t.createdBy = u._id) => resp.body.data = {}

C2_Witness ==
    /\ req.op = "list"
    /\ resp.status = 200
    /\ resp.body.data # {}
    /\ \E t \in trips : t.createdBy # req.auth.token.id
    /\ tripSeq > Cardinality(trips)

\* C3: DELETE /api/trips/:id by an authenticated account that does not own
\* the existing trip is answered 403 and no collection changes.
C3_NonOwnerDeleteIs403 ==
    [][\A u \in users, t \in trips :
        (/\ Idle
         /\ req'.op = "delete"
         /\ AuthenticatedAs(req'.auth, u._id)
         /\ req'.id = Oid(t._id)
         /\ t.createdBy # u._id) =>
            /\ resp'.status = 403
            /\ t \in trips'
            /\ UNCHANGED <<users, trips, tripSeq>>]_vars

C3_Witness ==
    /\ req.op = "delete"
    /\ resp.status = 403
    /\ \E t \in trips : t._id = req.id.n /\ t.createdBy # req.auth.token.id
    /\ \E u \in users : u._id = req.auth.token.id

\* C4: DELETE /api/trips/:id by the owner of the existing trip is answered
\* 200 and removes that trip and no other; a removed trip never returns to
\* the collection, and a list response holds stored trips only, so no later
\* list holds it.
C4_OwnerDeleteRemovesExactlyIt ==
    [][/\ \A u \in users, t \in trips :
            (/\ Idle
             /\ req'.op = "delete"
             /\ AuthenticatedAs(req'.auth, u._id)
             /\ req'.id = Oid(t._id)
             /\ t.createdBy = u._id) =>
                /\ resp'.status = 200
                /\ trips' = trips \ {t}
                /\ UNCHANGED <<users, tripSeq>>
       /\ \A n \in 1..tripSeq : n \notin TripIds(trips) => n \notin TripIds(trips')
       /\ (req'.op = "list" /\ resp'.status = 200) =>
              \A x \in resp'.body.data : x._id \in TripIds(trips')]_vars

C4_Witness ==
    /\ req.op = "delete"
    /\ resp.status = 200
    /\ req.id.n \notin TripIds(trips)
    /\ \E t \in trips : t.createdBy = req.auth.token.id

\* C5: DELETE /api/trips/:id by an authenticated account with an id for
\* which no trip exists (never issued, already removed, or no well-formed
\* identifier) is answered 404 and no collection changes.
C5_MissingTripIs404 ==
    [][\A u \in users :
        (/\ Idle
         /\ req'.op = "delete"
         /\ AuthenticatedAs(req'.auth, u._id)
         /\ (~req'.id.wellFormed \/ req'.id.n \notin TripIds(trips))) =>
            /\ resp'.status = 404
            /\ UNCHANGED <<users, trips, tripSeq>>]_vars

\* The stop lists of a request body, and the stops of a list as stored.
HasStops(l) == l.kind = "array" /\ Len(l.val) >= 1
NonBlank(v) == v.kind = "string" /\ Trim(v.val) # <<>>
NumericCoordinates(st) == st.latitude.kind = "number" /\ st.longitude.kind = "number"
AsSubmittedTrimmed(l) ==
    [i \in 1..Len(l.val) |->
        [name |-> Trim(l.val[i].name.val), latitude |-> l.val[i].latitude.val[1],
         longitude |-> l.val[i].longitude.val[1]]]

\* C6: POST /api/trips by an authenticated account with an empty or absent
\* title, or an absent or zero-length stop list, is answered 400 and no
\* collection changes.
C6_EmptyTitleOrStopsIs400 ==
    [][\A u \in users :
        (/\ Idle
         /\ req'.op = "create"
         /\ AuthenticatedAs(req'.auth, u._id)
         /\ \/ req'.body.title \in {Undef, Str(<<>>)}
            \/ req'.body.locations \in {Undef, Arr(<<>>)}) =>
            /\ resp'.status = 400
            /\ UNCHANGED <<users, trips, tripSeq>>]_vars

C6_Witness ==
    /\ req.op = "create"
    /\ resp.status = 400
    /\ NonBlank(req.body.title)
    /\ req.body.locations = Arr(<<>>)
    /\ \E u \in users : u._id = req.auth.token.id

\* C7: POST /api/trips by an authenticated account with a non-empty title and
\* a stop list of one or more stops, each with a non-empty name and numeric
\* coordinates, is answered 201 and adds exactly one trip, owned by the
\* account, with the submitted stops (names trimmed) in the submitted order.
C7_NonEmptyTitleCreates ==
    [][\A u \in users :
        (/\ Idle
         /\ req'.op = "create"
         /\ AuthenticatedAs(req'.auth, u._id)
         /\ req'.body.title.kind = "string" /\ req'.body.title.val # <<>>
         /\ HasStops(req'.body.locations)
         /\ \A i \in 1..Len(req'.body.locations.val) :
                LET st == req'.body.locations.val[i]
                IN  st.name.kind = "string" /\ st.name.val # <<>> /\ NumericCoordinates(st)) =>
            /\ resp'.status = 201
            /\ \E t \in trips' :
                   /\ t._id \notin TripIds(trips)
                   /\ trips' = trips \cup {t}
                   /\ t.createdBy = u._id
                   /\ t.locations = AsSubmittedTrimmed(req'.body.locations)]_vars

\* C7 for titles and stop names that are not blank (not empty once trimmed):
\* the request is answered 201 with the new trip and adds exactly that one
\* trip, owned by the authenticated account whatever createdBy the body
\* carries, with the submitted stops in the submitted order, names trimmed.
C7_NonBlankTitleCreates ==
    [][\A u \in users :
        (/\ Idle
         /\ req'.op = "create"
         /\ AuthenticatedAs(req'.auth, u._id)
         /\ NonBlank(req'.body.title)
         /\ HasStops(req'.body.locations)
         /\ \A i \in 1..Len(req'.body.locations.val) :
                LET st == req'.body.locations.val[i]
                IN  NonBlank(st.name) /\ NumericCoordinates(st)) =>
            /\ resp'.status = 201
            /\ resp'.body.kind = "trip"
            /\ \E t \in trips' :
                   /\ t._id \notin TripIds(trips)
                   /\ trips' = trips \cup {t}
                   /\ resp'.body.data = t
                   /\ t.createdBy = u._id
                   /\ t.locations = AsSubmittedTrimmed(req'.body.locations)
            /\ UNCHANGED users]_vars

C7_Witness ==
    /\ req.op = "create"
    /\ resp.status = 201
    /\ req.body.locations = Arr(<<PaddedStop, GoodStop>>)
    /\ req.body.createdBy.kind = "number"
    /\ req.body.createdBy.val[1] # req.auth.token.id
    /\ \E t \in trips : t._id = tripSeq /\ t.createdBy = req.auth.token.id

\* C8: POST /api/trips whose stop list holds a stop without a name, a
\* latitude or a longitude, or with a coordinate that is no number, is
\* answered 400 and stores no trip; every stored trip has only stops with a
\* name and numeric coordinates.
MalformedStop(st) ==
    \/ st.name = Undef
    \/ st.latitude = Undef
    \/ st.longitude = Undef
    \/ (st.latitude.kind = "string" /\ StringToNumber(st.latitude.val) = NaN)
    \/ (st.longitude.kind = "string" /\ StringToNumber(st.longitude.val) = NaN)

C8_MalformedStopIs400 ==
    [][/\ \A u \in users :
            (/\ Idle
             /\ req'.op = "create"
             /\ AuthenticatedAs(req'.auth, u._id)
             /\ HasStops(req'.body.locations)
             /\ \E i \in 1..Len(req'.body.locations.val) :
                    MalformedStop(req'.body.locations.val[i])) =>
                /\ resp'.status = 400
                /\ UNCHANGED <<trips, tripSeq>>
       /\ \A t \in trips' : \A i \in 1..Len(t.locations) :
              /\ t.locations[i].name # <<>>
              /\ t.locations[i].latitude \in Int
              /\ t.locations[i].longitude \in Int]_vars

\* C9: POST /api/auth/signup with an email that, lowercased, is the email of
\* a stored account is answered 400 whatever the username, stores no account
\* and returns no token.
C9_DuplicateEmailIs400 ==
    [][\A u \in users :
        (/\ Idle
         /\ req'.op = "signup"
         /\ req'.body.email.kind = "string"
         /\ ToLowerCase(req'.body.email.val) = u.email) =>
            /\ resp'.status = 400
            /\ resp'.body.kind = "error"
            /\ UNCHANGED users]_vars

C9_Witness ==
    /\ req.op = "signup"
    /\ resp.status = 400
    /\ req.body.email = Str(<<"A">>)
    /\ \E u \in users : u.email = <<"a">>
    /\ NonBlank(req.body.username)
    /\ \A u \in users : u.username # Trim(req.body.username.val)
    /\ req.body.password # Undef

\* C10: POST /api/auth/signup with an email no account has and a username
\* that a stored account has is answered 400 and stores no account;
\* usernames stay unique.
C10_DuplicateUsernameIs400 ==
    [][/\ \A u \in users :
            (/\ Idle
             /\ req'.op = "signup"
             /\ ~Falsy(req'.body.email)
             /\ ~Falsy(req'.body.password)
             /\ \A w \in users : w.email # ToLowerCase(Trim(req'.body.email.val))
             /\ req'.body.username.kind = "string"
             /\ Trim(req'.body.username.val) = u.username) =>
                /\ resp'.status = 400
                /\ UNCHANGED users
       /\ \A v, w \in users' : v.username = w.username => v = w]_vars

\* The email and password of a request body, as a login body.
Credentials(b) == [email |-> b.email, password |-> b.password]
\* The login body carries the email and the password of the stored account u.
CredentialsOf(b, u) ==
    /\ CastString(b.email).ok
    /\ u.email = ToLowerCase(Trim(ValOf(CastString(b.email))))
    /\ CastString(b.password).ok
    /\ u.password = Hash(ValOf(CastString(b.password)), u.password.salt)
\* An email no account is registered with.
UnknownEmail == Str(<<"z">>)

\* The login response o names the account of the signup response r and
\* carries a token that verifies to it.
SameAccount(o, r) ==
    /\ o.status = 200
    /\ o.body.kind = "user"
    /\ o.body.data._id = r.body.data._id
    /\ o.body.data.username = r.body.data.username
    /\ o.body.data.email = r.body.data.email
    /\ jwtVerifyOk(o.body.data.token)
    /\ o.body.data.token.id = r.body.data._id

\* C11: once POST /api/auth/signup has accepted a body, POST /api/auth/login
\* with the email and password of that body is answered 200 with the same
\* _id, username and email and a token that verifies to the account.
C11_RegisterThenLogin ==
    (req.op = "signup" /\ resp.status = 201) =>
        SameAccount(loginUser(Credentials(req.body)), resp)

\* C11 for passwords sent as JSON strings.
C11_StringPasswordRoundTrip ==
    (req.op = "signup" /\ resp.status = 201 /\ req.body.password.kind = "string") =>
        SameAccount(loginUser(Credentials(req.body)), resp)

C11_Witness ==
    /\ req.op = "signup"
    /\ resp.status = 201
    /\ req.body.email = Str(<<"A">>)
    /\ req.body.password.kind = "string"
    /\ resp.body.data.email = <<"a">>

\* C12: POST /api/auth/login with a body that does not carry the email and
\* the matching password of a stored account (unknown email, wrong password,
\* absent email or password) is answered 401 with no token.
C12_BadCredentialsIs401 ==
    [][(/\ Idle
        /\ req'.op = "login"
        /\ ~\E u \in users : CredentialsOf(req'.body, u)) =>
            /\ resp'.status = 401
            /\ resp'.body.kind = "error"]_vars

\* C13: a login that fails is answered as the same login with an email no
\* account has is answered: same status, same body.
C13_FailedLoginSameResponse ==
    [][(Idle /\ req'.op = "login" /\ resp'.status # 200) =>
        LET o == loginUser([req'.body EXCEPT !.email = UnknownEmail])
        IN  /\ resp'.status = o.status
            /\ resp'.body = o.body]_vars

TripHandlers == {"getTrips", "createTrip", "deleteTrip"}
\* The account documents, without the password, that have the id of token t.
AccountOf(t) ==
    {[_id |-> u._id, username |-> u.username, email |-> u.email] :
        u \in {x \in users : x._id = t.id}}

\* C14: a token returned by signup or login carries the id of the account
\* and the second of issuance, and a trip request that sends it less than
\* ExpiresIn seconds after issuance passes protect, which resolves it to
\* exactly that account, and reaches the handler.
C14_IssuedTokenVerifiesToAccount ==
    [][/\ (Idle /\ req'.op \in {"signup", "login"} /\ resp'.body.kind = "user") =>
            /\ resp'.body.data.token.id = resp'.body.data._id
            /\ resp'.body.data.token.iat = now
       /\ (/\ Idle
           /\ req'.op \in TripOps
           /\ req'.auth.scheme = "Bearer"
           /\ req'.auth.token \in held
           /\ now < req'.auth.token.iat + ExpiresIn) =>
            /\ resp'.status # 401
            /\ Len(resp'.ran) >= 2
            /\ resp'.ran[2] \in TripHandlers
            /\ AccountOf(req'.auth.token) # {}
            /\ protect(req'.auth).user = AccountOf(req'.auth.token)]_vars

C14_Witness ==
    /\ req.op = "list"
    /\ req.auth.scheme = "Bearer"
    /\ req.auth.token \in held
    /\ now = req.auth.token.iat + ExpiresIn - 1
    /\ resp.status = 200
    /\ resp.ran = <<"protect", "getTrips">>

\* C15: a trip request whose bearer token has an altered signature, is no
\* token at all, or is sent ExpiresIn seconds or more after issuance is
\* answered 401 'token failed' by protect, resolves to no account and
\* reaches no handler.
C15_BadTokenIs401 ==
    [][(/\ Idle
        /\ req'.op \in TripOps
        /\ req'.auth.scheme = "Bearer"
        /\ \/ req'.auth.token.sig # "signed"
           \/ now >= req'.auth.token.iat + ExpiresIn) =>
            /\ resp'.status = 401
            /\ resp'.body.error = "Not authorized, token failed"
            /\ resp'.ran = <<"protect">>
            /\ protect(req'.auth).user = {}
            /\ UNCHANGED <<users, trips, tripSeq>>]_vars

C15_Witness ==
    /\ req.op \in TripOps
    /\ req.auth.scheme = "Bearer"
    /\ req.auth.token \in held
    /\ now = req.auth.token.iat + ExpiresIn
    /\ resp.status = 401
    /\ resp.ran = <<"protect">>

\* C16: the token a login returns differs from every token issued before to
\* the same account, whenever that was; it verifies to the account, and the
\* login changes no collection.
C16_TokensAlwaysDiffer ==
    [][(Idle /\ req'.op = "login" /\ resp'.status = 200) =>
        /\ \A t \in held :
               t.id = resp'.body.data.token.id => t # resp'.body.data.token
        /\ protect(Bearer(resp'.body.data.token)).user = AccountOf(resp'.body.data.token)
        /\ UNCHANGED <<users, trips, tripSeq>>]_vars

\* C16 for tokens issued in different seconds: the token a login returns
\* differs from every token issued to the same account in another second;
\* it verifies to the account of the response, and the login changes no
\* collection.
C16_TokensOfDifferentSecondsDiffer ==
    [][(Idle /\ req'.op = "login" /\ resp'.status = 200) =>
        /\ \A t \in held :
               (t.id = resp'.body.data._id /\ t.iat # now) => t # resp'.body.data.token
        /\ protect(Bearer(resp'.body.data.token)).next
        /\ protect(Bearer(resp'.body.data.token)).user = AccountOf(resp'.body.data.token)
        /\ resp'.body.data.token.id = resp'.body.data._id
        /\ AccountOf(resp'.body.data.token) # {}
        /\ UNCHANGED <<users, trips, tripSeq>>]_vars

C16_Witness ==
    /\ req.op = "login"
    /\ resp.status = 200
    /\ \E t \in held :
           /\ t.id = resp.body.data._id
           /\ t.iat # now
           /\ t # resp.body.data.token

C18_UnknownAccountIs401 ==
    [][(/\ Idle
        /\ req'.op \in TripOps
        /\ req'.auth.scheme = "Bearer"
        /\ req'.auth.token.sig = "signed"
        /\ now < req'.auth.token.iat + ExpiresIn
        /\ AccountOf(req'.auth.token) = {}) =>
            /\ resp'.status = 401
            /\ resp'.ran = <<"protect">>]_vars

\* C19: every error response, whichever stage wrote it, has a body with the
\* two fields error and stack.
C19_ErrorBodyHasErrorAndStack ==
    resp.body.kind = "error" =>
        /\ resp.body.error # ""
        /\ resp.body.stack # "absent"

\* C20: the stack field of an error response written by errorHandler is
\* null under every NODE_ENV other than development.
C20_StackOnlyInDevelopment ==
    (/\ resp.body.kind = "error"
     /\ resp.ran # <<>>
     /\ resp.ran[Len(resp.ran)] = "errorHandler"
     /\ nodeEnv # "development") =>
        resp.body.stack = "null"

\* The statuses the handlers set themselves before they throw.
Classified == {400, 401, 403, 404}

\* C21: a request that fails is answered with the error body and a status
\* that is 500 unless the handler set a 4xx status; an error body never goes
\* out with a 2xx status, and the request adds no account and no trip.
C21_FailureIs500AndStoresNothing ==
    [][(Idle /\ req'.op # "none" /\ resp'.body.kind = "error") =>
        /\ resp'.status \in Classified \cup {500}
        /\ resp'.status \notin 200..299
        /\ users' \subseteq users
        /\ trips' \subseteq trips]_vars

\* C22: a stored trip keeps its title, description, stops and owner, and
\* leaves the collection only by a DELETE of its id, answered 200, under a
\* token of its owner.
C22_TripsAreImmutable ==
    [][/\ \A t \in trips' : t._id \in TripIds(trips) => t \in trips
       /\ \A t \in trips :
              t \notin trips' =>
                  /\ req'.op = "delete"
                  /\ req'.id = Oid(t._id)
                  /\ AuthenticatedAs(req'.auth, t.createdBy)
                  /\ resp'.status = 200]_vars

C22_Witness ==
    /\ req.op = "create"
    /\ resp.status = 201
    /\ \E t \in trips : t._id < tripSeq /\ t.createdBy # req.auth.token.id
    /\ \E i \in 1..tripSeq : i \notin TripIds(trips)

\* Two different slots that both hold an answered signup.
AnsweredSignups ==
    {p \in Slots \X Slots :
        /\ p[1] # p[2]
        /\ \A k \in {p[1], p[2]} : inflight[k].pc = "done" /\ inflight[k].op = "signup"}

\* The email and the username a signup body is stored under.
StoredEmail(b) == ToLowerCase(Trim(ValOf(CastString(b.email))))
StoredUsername(b) == Trim(ValOf(CastString(b.username)))

\* C26 (as stated, for the email): of two Register requests with the same
\* email that are in the server together, at most one creates an account,
\* and the one that creates none is answered 400 "User already exists", as
\* it is when the two are handled one after the other.
C26_ConcurrentDuplicateEmailIs400 ==
    \A p \in AnsweredSignups :
        StoredEmail(inflight[p[1]].body) = StoredEmail(inflight[p[2]].body) =>
            /\ ~(inflight[p[1]].wrote /\ inflight[p[2]].wrote)
            /\ \A k \in {p[1], p[2]} :
                   ~inflight[k].wrote =>
                       /\ inflight[k].res.status = 400
                       /\ inflight[k].res.body.error = "User already exists"

\* C26 (the part that holds): in every interleaving of the lookup and
\* insert steps no two accounts share an email or a username, and of two
\* requests with the same email or the same username at most one creates
\* an account.
C26_AtMostOneAccount ==
    /\ \A u, v \in users : (u.email = v.email \/ u.username = v.username) => u = v
    /\ \A p \in AnsweredSignups :
           (\/ StoredEmail(inflight[p[1]].body) = StoredEmail(inflight[p[2]].body)
            \/ StoredUsername(inflight[p[1]].body) = StoredUsername(inflight[p[2]].body)) =>
               ~(inflight[p[1]].wrote /\ inflight[p[2]].wrote)

\* Both requests passed the lookup before either inserted: one created the
\* account and the other's insert was refused by the unique index.
C26_Witness ==
    \E p \in AnsweredSignups :
        /\ StoredEmail(inflight[p[1]].body) = StoredEmail(inflight[p[2]].body)
        /\ inflight[p[1]].wrote
        /\ ~inflight[p[2]].wrote
        /\ inflight[p[2]].res.body.error = "E11000 duplicate key error"

\* C27: a DeleteTrip request is answered 200 only if it removed the trip
\* itself; of the owner's requests for one trip every other one is
\* answered 404.
C27_OnlyTheRemovingDeleteIs200 ==
    \A i \in Slots :
        (inflight[i].pc = "done" /\ inflight[i].op = "delete") =>
            /\ inflight[i].res.status = 200 => inflight[i].wrote
            /\ (~inflight[i].wrote /\ inflight[i].res.status \notin {401, 403}) =>
                   inflight[i].res.status = 404

\* A step in which the browser sends a request: the requests not yet
\* answered, less the one answered in the step, grow by one.
Answers == IF req # NoRequest /\ req' = NoRequest /\ app.calls # <<>> THEN 1 ELSE 0
Sends == Len(app'.calls) > Len(app.calls) - Answers
Sent == app'.calls[Len(app'.calls)]

\* C23: every request the client sends carries Authorization: Bearer with
\* the token localStorage holds, and none when it holds none; the stored
\* token changes only when a login or signup succeeds, to the token of the
\* answer, and when the user logs out; logging out leaves no token and no
\* user.
C23_RequestsCarryStoredToken ==
    [][/\ Sends =>
              /\ app'.token = {} => Sent.auth.scheme = "absent"
              /\ \A t \in app'.token : Sent.auth = [scheme |-> "Bearer", token |-> t]
       /\ app'.token # app.token =>
              \/ /\ Answers = 1
                 /\ Head(app.calls).op \in {"signup", "login"}
                 /\ resp.status \in 200..299
                 /\ app'.token = {resp.body.data.token}
                 /\ app'.user # {}
              \/ /\ app'.token = {}
                 /\ app'.user = {}
       /\ (app.user # {} /\ app'.user = {} /\ app'.page = "auth") => app'.token = {}]_vars

\* A request of the logged-in user is in flight and carries the token that
\* the latest login or signup, after the clock has moved, has stored.
C23_Witness ==
    /\ app.user # {}
    /\ now > 0
    /\ \E k \in 1..Len(app.calls), t \in app.token :
           /\ app.calls[k].op = "list"
           /\ app.calls[k].auth = Bearer(t)
           /\ t.iat = now
           /\ \E h \in held : h = t

\* C25: when the page is loaded, a user with a stored token is shown Home
\* and a guest without one is shown Auth.
C25_LoadShowsHomeOrAuth ==
    [][Reload => (Rendered' = IF app.token # {} THEN "home" ELSE "auth")]_vars

\* C30: with no user in state the page rendered is Auth, Home and Profile
\* are rendered only with a user in state, and a user in state implies a
\* stored token.
C30_NoUserMeansAuth ==
    /\ app.user = {} => Rendered = "auth"
    /\ Rendered \in {"home", "profile"} => app.user # {}
    /\ app.user # {} => app.token # {}

\* A guest (after a logout) has navigated to "home" and is shown Auth.
C30_Witness ==
    /\ app.user = {}
    /\ app.token = {}
    /\ app.page = "home"
    /\ held # {}

\* A step in which the k-th lookup of the form settles.
Settles(k) ==
    /\ form.shown
    /\ form'.shown
    /\ k \in 1..Len(form.lookups)
    /\ form'.lookups = RemoveAt(form.lookups, k)

\* The three outcomes of a lookup for name: the stop is appended, or the
\* list is unchanged with one of the two errors.
GeocodeOutcome(name) ==
    \/ /\ form'.locations = Append(form.locations, [name |-> name, latitude |-> 1, longitude |-> 2])
       /\ form'.error = form.error
    \/ /\ form'.locations = form.locations
       /\ form'.error = "Could not find coordinates"
    \/ /\ form'.locations = form.locations
       /\ form'.error = "Geocoding service failed"

NothingSubmitted ==
    /\ form'.isSubmitting = form.isSubmitting
    /\ app' = app
    /\ UNCHANGED <<trips, tripSeq, req, resp>>

\* C24 (as stated): a geocode attempt ends in one of three outcomes: the
\* stop with the name entered and the coordinates returned is appended at
\* the end of the stop list, or the list is unchanged and the error is
\* 'could not find', or the list is unchanged and the error is 'service
\* failed'; the geocoding flag is false afterwards and no trip is submitted.
C24_GeocodeEndsInOneOfThree ==
    [][\A k \in 1..MaxLookups :
           Settles(k) =>
               /\ GeocodeOutcome(form.lookups[k].nameToSearch)
               /\ ~form'.isGeocoding
               /\ NothingSubmitted]_vars

\* C24 (the part that holds): the same for an attempt during which the
\* stop list did not change.
C24_UndisturbedGeocodeEndsInOneOfThree ==
    [][\A k \in 1..MaxLookups :
           (Settles(k) /\ form.lookups[k].locations = form.locations) =>
               /\ GeocodeOutcome(form.lookups[k].nameToSearch)
               /\ ~form'.isGeocoding
               /\ NothingSubmitted]_vars

\* The name "q " was looked up and matched: the stop "q" is the last of two.
C24_Witness ==
    /\ form.shown
    /\ form.lookups = <<>>
    /\ ~form.isGeocoding
    /\ Len(form.locations) = 2
    /\ form.locations[2] = [name |-> <<"q">>, latitude |-> 1, longitude |-> 2]
    /\ form.currentLocationName = <<>>

Count(l, x) == Cardinality({k \in 1..Len(l) : l[k] = x})

\* C28: once no lookup is in flight, the stop list holds the stops that
\* were matched and not removed by the user, and no others.
C28_StopListIsMatchedLessRemoved ==
    (form.shown /\ form.lookups = <<>>) =>
        \A k \in 1..Len(form.locations) \cup 1..Len(form.kept) :
            /\ k <= Len(form.locations) =>
                   Count(form.locations, form.locations[k]) = Count(form.kept, form.locations[k])
            /\ k <= Len(form.kept) =>
                   Count(form.locations, form.kept[k]) = Count(form.kept, form.kept[k])

\* A step in which the answer to a create request of the form arrives.
CreateAnswered ==
    /\ Answers = 1
    /\ Head(app.calls).op = "create"
    /\ Head(app.calls).byForm

\* C29 (as stated): when the create request fails, the error is shown and
\* the form keeps its title, description and stops.
C29_FailedCreateKeepsForm ==
    [][(CreateAnswered /\ resp.status \notin 200..299) =>
           /\ app'.apiError = resp.body.error
           /\ form'.title = form.title
           /\ form'.description = form.description
           /\ form'.locations = form.locations]_vars

\* C29 (the part that holds): no create request leaves the form with a
\* blank title or without stops.
C29_NoBlankSubmission ==
    \A k \in 1..Len(app.calls) :
        app.calls[k].op = "create" =>
            /\ Trim(app.calls[k].body.title.val) # <<>>
            /\ Len(app.calls[k].body.locations.val) > 0

\* handleSubmit refused a form with stops and the title " ".
C29_Witness ==
    /\ form.shown
    /\ form.title = <<" ">>
    /\ form.locations # <<>>
    /\ form.error = "Please provide a title and at least one location stop."
    /\ \A k \in 1..Len(app.calls) : app.calls[k].op # "create"
====
